---- MODULE Spec2Model ----
(***************************************************************************)
(* Binary insertion sort visualizer (src/src/app/page.tsx).                *)
(*                                                                         *)
(* Two parts of the page are modelled:                                     *)
(*   - generateSteps, the trace generator, as a small-step machine over    *)
(*     the record `gen` (one action per block of the function), and as     *)
(*     the operator generateSteps(a) that runs that machine to its end;    *)
(*   - the playback state of BinaryInsertionSortStudio (steps,             *)
(*     currentStep, isPlaying, speed, timerRef), its handlers, the         *)
(*     autoplay effect and the interval callback.                          *)
(*                                                                         *)
(* Array indices are the 0-based indices of the source; a JavaScript       *)
(* array is a sequence and At/Put translate the index.                     *)
(***************************************************************************)
EXTENDS Integers, Sequences, FiniteSets, TLC

VARIABLES gen, array, steps, currentStep, isPlaying, speed, timerRef, timers,
          effectPending, lastOp, endPlay, advances

vars == <<gen, array, steps, currentStep, isPlaying, speed, timerRef, timers,
          effectPending, lastOp, endPlay, advances>>

playVars == <<array, steps, currentStep, isPlaying, speed, timerRef, timers,
              effectPending, lastOp, endPlay, advances>>

----------------------------------------------------------------------------
(* Bounds of the model *)

\* longest input array given to generateSteps in Spec
MaxLen == 4

\* input values of Spec are 1..MaxVal
MaxVal == 3

\* length of the array reset samples (ARRAY_SIZE, 12 in the source, scaled down)
SampleSize == 3

----------------------------------------------------------------------------
(* JavaScript arrays *)

At(a, k) == a[k + 1]

Put(a, k, v) == [a EXCEPT ![k + 1] = v]

\* Array.from({ length: n }, (_, k) => k)
IndexList(n) == [k \in 1..n |-> k - 1]

\* faulty variant: the midpoint rounded up
Mid_Ceil(lo, hi) == (lo + hi + 1) \div 2

\* Math.floor((low + high) / 2), on the non-negative sums the loop produces
Mid(lo, hi) == (lo + hi) \div 2

ArraysUpTo(len, vals) == UNION {[1..m -> vals] : m \in 0..len}

----------------------------------------------------------------------------
(* The steps generateSteps pushes.  A field the source leaves out of the   *)
(* object literal is left out of the record; description holds the values  *)
(* interpolated into the narration.                                        *)

Has(s, f) == f \in DOMAIN s

InitStep(arr) ==
    [array |-> arr, indices |-> <<>>, type |-> "init",
     description |-> <<"start">>, codeLine |-> 0]

\* faulty variant: the target is the end of the prefix, not the element to insert
SearchStartStep_TargetHigh(arr, i, val, low, high) ==
    [array |-> arr, indices |-> <<>>, targetIdx |-> high, type |-> "search",
     description |-> <<"searchStart", i, val, low, high>>, codeLine |-> 3]

SearchStartStep(arr, i, val, low, high) ==
    [array |-> arr, indices |-> <<>>, targetIdx |-> i, type |-> "search",
     description |-> <<"searchStart", i, val, low, high>>, codeLine |-> 3]

ProbeStep(arr, i, low, mid, high) ==
    [array |-> arr, indices |-> <<low, mid, high>>, searchRange |-> <<low, high>>,
     targetIdx |-> i, type |-> "search",
     description |-> <<"compare", At(arr, mid)>>, codeLine |-> 11]

\* faulty variant: the resolved step still carries the (now empty) range
ResolvedStep_KeepsRange(arr, i, pos) ==
    [array |-> arr, indices |-> <<pos>>, searchRange |-> <<pos, pos - 1>>,
     targetIdx |-> i, type |-> "search",
     description |-> <<"resolved", pos>>, codeLine |-> 16]

ResolvedStep(arr, i, pos) ==
    [array |-> arr, indices |-> <<pos>>, targetIdx |-> i, type |-> "search",
     description |-> <<"resolved", pos>>, codeLine |-> 16]

\* faulty variant: the target is the inner index j
ShiftStep_TargetJ(arr, i, j, pos) ==
    [array |-> arr, indices |-> <<j, j - 1>>, targetIdx |-> j, type |-> "shift",
     description |-> <<"shift", pos>>, codeLine |-> 6]

ShiftStep(arr, i, j, pos) ==
    [array |-> arr, indices |-> <<j, j - 1>>, targetIdx |-> i, type |-> "shift",
     description |-> <<"shift", pos>>, codeLine |-> 6]

InsertStep(arr, pos, val) ==
    [array |-> arr, indices |-> <<pos>>, type |-> "insert",
     description |-> <<"inserted", pos, val>>, codeLine |-> 7]

CompleteStep(arr, n) ==
    [array |-> arr, indices |-> IndexList(n), type |-> "complete",
     description |-> <<"done">>, codeLine |-> 0]

----------------------------------------------------------------------------
(* generateSteps as a machine.  gen.pc is the position in the function:    *)
(*   "call"  before the first statement                                    *)
(*   "for"   at the test of the outer for loop                             *)
(*   "while" at the test of the binary-search loop                         *)
(*   "shift" at the test of the shift loop                                 *)
(*   "done"  returned                                                      *)
(* gen.prov is a ghost: prov[k] is the index in initialArray the element   *)
(* now at arr[k] came from; it moves with every assignment to arr.         *)
(*                                                                         *)
(* Arrays are objects.  gen.inputRef, gen.arrRef and gen.refs[k] are the   *)
(* identities of the caller's array, of the working array arr and of the   *)
(* array held by steps[k]; gen.nextRef is the identity the next array      *)
(* created will get (arrRef is 0 until arr is).  An assignment arr[k] = v stores into the object      *)
(* arrRef names, and every holder of that object sees it (Stored).         *)

GenCall(a) ==
    [initialArray |-> a, arr |-> <<>>, prov |-> <<>>, n |-> 0, steps |-> <<>>,
     inputRef |-> 1, arrRef |-> 0, refs |-> <<>>, nextRef |-> 2,
     pc |-> "call", i |-> 0, val |-> 0, vprov |-> 0, low |-> 0, high |-> 0,
     pos |-> 0, j |-> 0]

\* Elements are JavaScript numbers.  The finite ones are integers; NaN is a value
\* outside them, and Infinity is above every finite value an input holds.
NaN == 0 - 1

Infinity == MaxVal + 1

IsNaN(x) == x = NaN

\* faulty variant: NaN ordered below every number
Less_NaNFirst(x, y) == x < y

\* the operator < on numbers: false when either side is NaN
Less(x, y) == ~IsNaN(x) /\ ~IsNaN(y) /\ x < y

\* faulty variant: equal elements send the search right
GoesRight_TiesRight(x, val) == x <= val

\* faulty variant: the comparison turned round
GoesRight_Reversed(x, val) == x > val

\* arr[mid] < val
GoesRight(x, val) == Less(x, val)

\* faulty variant: the array is handed on as it is, not copied
Spread_Alias(next, src) == src

\* [...src]: a new array, with the identity next
Spread(next, src) == next

\* the steps after the array `ref` has been given the contents a
Stored(st, refs, ref, a) ==
    [k \in DOMAIN st |-> IF refs[k] = ref THEN [st[k] EXCEPT !.array = a] ELSE st[k]]

\* the caller's array after the array `ref` has been given the contents a
StoredInput(g, a) == IF g.inputRef = g.arrRef THEN a ELSE g.initialArray

\* faulty variant: the element is copied the other way
ShiftAssign_Backwards(arr, j) == Put(arr, j - 1, At(arr, j))

\* arr[j] = arr[j - 1]
ShiftAssign(arr, j) == Put(arr, j, At(arr, j - 1))

\* faulty variant: the value is never written back
InsertAssign_Skipped(arr, pos, val) == arr

\* arr[pos] = val
InsertAssign(arr, pos, val) == Put(arr, pos, val)

\* faulty variant: the outer loop starts at index 0
EmitInit_FromZero(g) ==
    [g EXCEPT !.arr = g.initialArray,
              !.prov = IndexList(Len(g.initialArray)),
              !.n = Len(g.initialArray),
              !.arrRef = Spread(g.nextRef, g.inputRef),
              !.steps = <<InitStep(g.initialArray)>>,
              !.refs = <<Spread(g.nextRef + 1, g.inputRef)>>,
              !.nextRef = g.nextRef + 2,
              !.i = 0,
              !.pc = "for"]

\* lines 59-69
EmitInit(g) ==
    [g EXCEPT !.arr = g.initialArray,
              !.prov = IndexList(Len(g.initialArray)),
              !.n = Len(g.initialArray),
              !.arrRef = Spread(g.nextRef, g.inputRef),
              !.steps = <<InitStep(g.initialArray)>>,
              !.refs = <<Spread(g.nextRef + 1, g.inputRef)>>,
              !.nextRef = g.nextRef + 2,
              !.i = 1,
              !.pc = "for"]

\* lines 71-83
SearchStart(g) ==
    [g EXCEPT !.val = At(g.arr, g.i),
              !.vprov = At(g.prov, g.i),
              !.low = 0,
              !.high = g.i - 1,
              !.steps = Append(g.steps,
                  SearchStartStep(g.arr, g.i, At(g.arr, g.i), 0, g.i - 1)),
              !.refs = Append(g.refs, Spread(g.nextRef, g.arrRef)),
              !.nextRef = g.nextRef + 1,
              !.pc = "while"]

\* lines 85-102, one iteration
Probe(g) ==
    LET mid == Mid(g.low, g.high)
        right == GoesRight(At(g.arr, mid), g.val)
    IN [g EXCEPT !.steps = Append(g.steps, ProbeStep(g.arr, g.i, g.low, mid, g.high)),
                 !.refs = Append(g.refs, Spread(g.nextRef, g.arrRef)),
                 !.nextRef = g.nextRef + 1,
                 !.low = IF right THEN mid + 1 ELSE g.low,
                 !.high = IF right THEN g.high ELSE mid - 1]

\* faulty variant: the shift loop starts one below i
Resolve_StartBelow(g) ==
    [g EXCEPT !.pos = g.low,
              !.steps = Append(g.steps, ResolvedStep(g.arr, g.i, g.low)),
              !.refs = Append(g.refs, Spread(g.nextRef, g.arrRef)),
              !.nextRef = g.nextRef + 1,
              !.j = g.i - 1,
              !.pc = "shift"]

\* lines 104-112, and the initialisation j = i of line 115
Resolve(g) ==
    [g EXCEPT !.pos = g.low,
              !.steps = Append(g.steps, ResolvedStep(g.arr, g.i, g.low)),
              !.refs = Append(g.refs, Spread(g.nextRef, g.arrRef)),
              !.nextRef = g.nextRef + 1,
              !.j = g.i,
              !.pc = "shift"]

\* faulty variant: the snapshot is taken after the assignment
Shift_SnapshotAfter(g) ==
    LET a == ShiftAssign(g.arr, g.j)
        pushed == Append(g.steps, ShiftStep(a, g.i, g.j, g.pos))
        held == Append(g.refs, Spread(g.nextRef, g.arrRef))
    IN
    [g EXCEPT !.steps = Stored(pushed, held, g.arrRef, a),
              !.refs = held,
              !.nextRef = g.nextRef + 1,
              !.initialArray = StoredInput(g, a),
              !.arr = a,
              !.prov = Put(g.prov, g.j, At(g.prov, g.j - 1)),
              !.j = g.j - 1]

\* lines 115-125, one iteration
Shift(g) ==
    LET a == ShiftAssign(g.arr, g.j)
        pushed == Append(g.steps, ShiftStep(g.arr, g.i, g.j, g.pos))
        held == Append(g.refs, Spread(g.nextRef, g.arrRef))
    IN
    [g EXCEPT !.steps = Stored(pushed, held, g.arrRef, a),
              !.refs = held,
              !.nextRef = g.nextRef + 1,
              !.initialArray = StoredInput(g, a),
              !.arr = a,
              !.prov = Put(g.prov, g.j, At(g.prov, g.j - 1)),
              !.j = g.j - 1]

\* lines 127-134, and the i++ of line 71
Insert(g) ==
    LET a == InsertAssign(g.arr, g.pos, g.val)
    IN [g EXCEPT !.arr = a,
                 !.prov = Put(g.prov, g.pos, g.vprov),
                 !.initialArray = StoredInput(g, a),
                 !.steps = Append(Stored(g.steps, g.refs, g.arrRef, a),
                                  InsertStep(a, g.pos, g.val)),
                 !.refs = Append(g.refs, Spread(g.nextRef, g.arrRef)),
                 !.nextRef = g.nextRef + 1,
                 !.i = g.i + 1,
                 !.pc = "for"]

\* faulty variant: returns without pushing the last step
Complete_NoPush(g) == [g EXCEPT !.pc = "done"]

\* lines 137-145
Complete(g) ==
    [g EXCEPT !.steps = Append(g.steps, CompleteStep(g.arr, g.n)),
              !.refs = Append(g.refs, Spread(g.nextRef, g.arrRef)),
              !.nextRef = g.nextRef + 1,
              !.pc = "done"]

CanEmitInit(g) == g.pc = "call"

CanSearchStart(g) == g.pc = "for" /\ g.i < g.n

CanComplete(g) == g.pc = "for" /\ ~(g.i < g.n)

CanProbe(g) == g.pc = "while" /\ g.low <= g.high

CanResolve(g) == g.pc = "while" /\ ~(g.low <= g.high)

CanShift(g) == g.pc = "shift" /\ g.j > g.pos

CanInsert(g) == g.pc = "shift" /\ ~(g.j > g.pos)

GenStep(g) ==
    CASE CanEmitInit(g) -> EmitInit(g)
      [] CanSearchStart(g) -> SearchStart(g)
      [] CanComplete(g) -> Complete(g)
      [] CanProbe(g) -> Probe(g)
      [] CanResolve(g) -> Resolve(g)
      [] CanShift(g) -> Shift(g)
      [] CanInsert(g) -> Insert(g)

RECURSIVE GenRun(_)
GenRun(g) == IF g.pc = "done" THEN g ELSE GenRun(GenStep(g))

\* the value generateSteps(initialArray) returns
generateSteps(a) == GenRun(GenCall(a)).steps

----------------------------------------------------------------------------
(* The generator run on its own: every input up to the bounds, one action  *)
(* per block of generateSteps.                                             *)

Inputs == ArraysUpTo(MaxLen, 1..MaxVal)

\* inputs with an element that is not a finite number
MalformedValues == {1, NaN, Infinity}

Malformed(a) == \E k \in DOMAIN a : a[k] \in {NaN, Infinity}

MalformedInputs == {a \in ArraysUpTo(MaxLen, MalformedValues) : Malformed(a)}

GenEmitInit == CanEmitInit(gen) /\ gen' = EmitInit(gen) /\ UNCHANGED playVars

GenSearchStart == CanSearchStart(gen) /\ gen' = SearchStart(gen) /\ UNCHANGED playVars

GenProbe == CanProbe(gen) /\ gen' = Probe(gen) /\ UNCHANGED playVars

GenResolve == CanResolve(gen) /\ gen' = Resolve(gen) /\ UNCHANGED playVars

GenShift == CanShift(gen) /\ gen' = Shift(gen) /\ UNCHANGED playVars

GenInsert == CanInsert(gen) /\ gen' = Insert(gen) /\ UNCHANGED playVars

GenComplete == CanComplete(gen) /\ gen' = Complete(gen) /\ UNCHANGED playVars

----------------------------------------------------------------------------
(* Playback state of BinaryInsertionSortStudio.                            *)
(*                                                                         *)
(* timers is the set of intervals setInterval has created and              *)
(* clearInterval has not cleared; each holds what its callback's closure   *)
(* captured (steps.length) and its period.  timerRef is timerRef.current,  *)
(* 0 for null.                                                             *)
(*                                                                         *)
(* Scheduling of the autoplay effect (useEffect, lines 174-189).  React    *)
(* runs the cleanup of the previous run and then the body after the        *)
(* render that changed a dependency has been committed, not inside the     *)
(* handler that set the state, and at the latest before it renders the     *)
(* next state update.  So:                                                 *)
(*   - a handler or an interval callback that changes a dependency leaves  *)
(*     effectPending set;                                                  *)
(*   - autoplayEffect is the run of the pending effect on its own;         *)
(*   - a handler or interval callback that finds the effect still pending  *)
(*     has it run first (Flushed), on the state before its own update.     *)
(* While the effect is pending the interval of the previous run is still   *)
(* live, and the timer may fire its callback: the source has nothing that  *)
(* orders the timer against the effect.                                    *)
(*                                                                         *)
(* History variables:                                                      *)
(*   lastOp    the handler or callback that set state last ("tick" for the *)
(*             interval callback, "none" before the first);                *)
(*   endPlay   since the last reset, the play button has set isPlaying to  *)
(*             true with the cursor on the last index;                     *)
(*   advances  the number of times an interval callback has moved the      *)
(*             cursor since the autoplay effect last ran.                  *)

INITIAL_SPEED == 800

SPEED_MIN == 100

SPEED_MAX == 980

SpeedValues == {SPEED_MIN, INITIAL_SPEED, SPEED_MAX}

\* Math.floor(Math.random() * 85) + 10 is one of 10..94
RANDOM_MIN == 10

Min(a, b) == IF a < b THEN a ELSE b

Max(a, b) == IF a > b THEN a ELSE b

\* faulty variant: currentStep is missing from the dependency list
Deps_NoCursor(p, c, st, sp) == <<p, Len(st), sp>>

\* the dependency list of the autoplay effect, line 189
Deps(p, c, st, sp) == <<p, c, Len(st), sp>>

DepsChange(p, c, st, sp) == Deps(p, c, st, sp) # Deps(isPlaying, currentStep, steps, speed)

\* const step = steps[currentStep] || { array: [], indices: [], type: 'init', description: '' }
step ==
    IF currentStep >= 0 /\ currentStep < Len(steps)
    THEN At(steps, currentStep)
    ELSE [array |-> <<>>, indices |-> <<>>, type |-> "init", description |-> <<>>]

\* clearInterval(id)
ClearInterval(ts, id) == {t \in ts : t.id # id}

\* the id setInterval returns: one no live interval has
NewId(ts) == CHOOSE k \in 1..(Cardinality(ts) + 1) : \A t \in ts : t.id # k

\* faulty variant: the effect stops scheduling one step short of the last index
ShouldSchedule_StopsShort(p, c, len) == p /\ c < len - 2

\* the condition of the effect, line 175
ShouldSchedule(p, c, len) == p /\ c < len - 1

\* faulty variant: the interval of the previous run is never cleared
Cleanup_None(ts, ref) == ts

\* the cleanup the previous run returned (line 188)
Cleanup(ts, ref) == IF ref # 0 THEN ClearInterval(ts, ref) ELSE ts

\* lines 174-189: one run of the effect, the cleanup of the previous run first;
\* gives the live intervals and timerRef.current after it
EffectRun(ts, ref, p, c, len, sp) ==
    LET cleaned == Cleanup(ts, ref)
    IN IF ShouldSchedule(p, c, len)
       THEN [timers |-> cleaned \cup
                          {[id |-> NewId(cleaned), len |-> len, period |-> 1001 - sp]},
             ref |-> NewId(cleaned)]
       ELSE [timers |-> Cleanup(cleaned, ref), ref |-> ref]

\* the intervals and timerRef.current once a pending effect, if any, has run
Flushed ==
    IF effectPending
    THEN EffectRun(timers, timerRef, isPlaying, currentStep, Len(steps), speed)
    ELSE [timers |-> timers, ref |-> timerRef]

FlushEffect == timers' = Flushed.timers /\ timerRef' = Flushed.ref

\* advances once a pending effect has been run
Settled == IF effectPending THEN 0 ELSE advances

\* 1 when the cursor moves from c to d
Moved(c, d) == IF c # d THEN 1 ELSE 0

\* Array.from({ length: ARRAY_SIZE }, () => ...): arrays reset can sample.  Three of
\* them stand for all: equal values, ascending and descending (the traces with the
\* most and the fewest steps are among theirs).
Samples ==
    {[k \in 1..SampleSize |-> RANDOM_MIN],
     [k \in 1..SampleSize |-> RANDOM_MIN + k],
     [k \in 1..SampleSize |-> RANDOM_MIN + SampleSize - k]}

\* generateSteps(newArray) for each of them
SampleSteps == [a \in Samples |-> generateSteps(a)]

\* faulty variant: setCurrentStep(0) is left out
reset_KeepsCursor ==
    \E newArray \in Samples :
       LET newSteps == SampleSteps[newArray]
       IN /\ FlushEffect
          /\ array' = newArray
          /\ steps' = newSteps
          /\ currentStep' = currentStep
          /\ isPlaying' = FALSE
          /\ effectPending' = DepsChange(FALSE, currentStep, newSteps, speed)
          /\ lastOp' = "reset"
          /\ endPlay' = FALSE
          /\ advances' = Settled
          /\ UNCHANGED <<gen, speed>>

\* lines 158-165
reset ==
    \E newArray \in Samples :
       LET newSteps == SampleSteps[newArray]
       IN /\ FlushEffect
          /\ array' = newArray
          /\ steps' = newSteps
          /\ currentStep' = 0
          /\ isPlaying' = FALSE
          /\ effectPending' = DepsChange(FALSE, 0, newSteps, speed)
          /\ lastOp' = "reset"
          /\ endPlay' = FALSE
          /\ advances' = Settled
          /\ UNCHANGED <<gen, speed>>

\* faulty variant: the clamp to the last index is missing
ForwardTo_NoClamp(prev, len) == prev + 1

\* line 171
ForwardTo(prev, len) == Min(prev + 1, len - 1)

stepForward ==
    /\ FlushEffect
    /\ currentStep' = ForwardTo(currentStep, Len(steps))
    /\ effectPending' = DepsChange(isPlaying, currentStep', steps, speed)
    /\ lastOp' = "stepForward"
    /\ advances' = Settled
    /\ UNCHANGED endPlay
    /\ UNCHANGED <<gen, array, steps, isPlaying, speed>>

\* line 172
BackwardTo(prev) == Max(prev - 1, 0)

\* faulty variant: stepping back pauses playback
stepBackward_Pauses ==
    /\ FlushEffect
    /\ currentStep' = BackwardTo(currentStep)
    /\ isPlaying' = FALSE
    /\ effectPending' = DepsChange(FALSE, currentStep', steps, speed)
    /\ lastOp' = "stepBackward"
    /\ advances' = Settled
    /\ UNCHANGED endPlay
    /\ UNCHANGED <<gen, array, steps, speed>>

stepBackward ==
    /\ FlushEffect
    /\ currentStep' = BackwardTo(currentStep)
    /\ effectPending' = DepsChange(isPlaying, currentStep', steps, speed)
    /\ lastOp' = "stepBackward"
    /\ advances' = Settled
    /\ UNCHANGED endPlay
    /\ UNCHANGED <<gen, array, steps, isPlaying, speed>>

\* line 301
togglePlay ==
    /\ FlushEffect
    /\ isPlaying' = ~isPlaying
    /\ effectPending' = DepsChange(isPlaying', currentStep, steps, speed)
    /\ lastOp' = "togglePlay"
    /\ endPlay' = (endPlay \/ (~isPlaying /\ steps # <<>> /\ currentStep = Len(steps) - 1))
    /\ advances' = Settled
    /\ UNCHANGED <<gen, array, steps, currentStep, speed>>

\* line 316
setSpeed ==
    \E v \in SpeedValues :
       /\ FlushEffect
       /\ speed' = v
       /\ effectPending' = DepsChange(isPlaying, currentStep, steps, v)
       /\ lastOp' = "setSpeed"
       /\ advances' = Settled
       /\ UNCHANGED endPlay
       /\ UNCHANGED <<gen, array, steps, currentStep, isPlaying>>

\* lines 174-189 run on their own
autoplayEffect ==
    /\ effectPending
    /\ FlushEffect
    /\ effectPending' = FALSE
    /\ advances' = 0
    /\ UNCHANGED <<gen, array, steps, currentStep, isPlaying, speed, lastOp, endPlay>>

\* faulty variant: the test against the last index is missing
TickCursor_NoGuard(prev, len) == prev + 1

\* lines 177-183: the updater the interval callback passes to setCurrentStep
TickCursor(prev, len) == IF prev >= len - 1 THEN prev ELSE prev + 1

\* line 179: setIsPlaying(false) inside the updater
TickPlaying(prev, len, playing) == IF prev >= len - 1 THEN FALSE ELSE playing

\* lines 176-184: the callback of the live interval t fires
intervalTick(t) ==
    /\ FlushEffect
    /\ currentStep' = TickCursor(currentStep, t.len)
    /\ isPlaying' = TickPlaying(currentStep, t.len, isPlaying)
    /\ effectPending' = DepsChange(isPlaying', currentStep', steps, speed)
    /\ lastOp' = "tick"
    /\ advances' = Settled + Moved(currentStep, currentStep')
    /\ UNCHANGED endPlay
    /\ UNCHANGED <<gen, array, steps, speed>>

tick == \E t \in timers : intervalTick(t)

----------------------------------------------------------------------------
(* Specifications *)

PlayStart ==
    /\ array = <<>>
    /\ steps = <<>>
    /\ currentStep = 0
    /\ isPlaying = FALSE
    /\ speed = INITIAL_SPEED
    /\ timerRef = 0
    /\ timers = {}
    /\ effectPending = FALSE
    /\ lastOp = "none"
    /\ endPlay = FALSE
    /\ advances = 0

\* generateSteps called on each input
Init == gen \in {GenCall(a) : a \in Inputs} /\ PlayStart

Next ==
    \/ GenEmitInit
    \/ GenSearchStart
    \/ GenProbe
    \/ GenResolve
    \/ GenShift
    \/ GenInsert
    \/ GenComplete

Spec == Init /\ [][Next]_vars

\* generateSteps called on the inputs that hold NaN or Infinity
MalformedInit == gen \in {GenCall(a) : a \in MalformedInputs} /\ PlayStart

MalformedSpec == MalformedInit /\ [][Next]_vars

\* the mounted component
PlayInit == gen = GenCall(<<>>) /\ PlayStart

PlayNext ==
    \/ reset
    \/ stepForward
    \/ stepBackward
    \/ togglePlay
    \/ setSpeed
    \/ autoplayEffect
    \/ tick

PlaySpec == PlayInit /\ [][PlayNext]_vars

\* what the interval bookkeeping can be while isPlaying is true below the last index:
\* no interval yet (play was just pressed) or the one timerRef names, scheduled for
\* this trace; once the effect has run, that one at the period of the current speed
PlayingShape ==
    /\ timers \subseteq {[id |-> 1, len |-> Len(steps), period |-> 1001 - v] : v \in SpeedValues}
    /\ Cardinality(timers) <= 1
    /\ timerRef \in {0, 1}
    /\ timers # {} => timerRef = 1
    /\ ~effectPending => timers = {[id |-> 1, len |-> Len(steps), period |-> 1001 - speed]}

\* Autoplay left to itself: playback is on, the cursor is below the last index of a
\* trace, and from then on only the effect and the interval callback run.
AutoInit ==
    /\ gen = GenCall(<<>>)
    /\ array \in Samples
    /\ steps = SampleSteps[array]
    /\ currentStep \in 0..(Len(steps) - 2)
    /\ isPlaying = TRUE
    /\ speed \in SpeedValues
    /\ timerRef \in {0, 1}
    /\ timers \in SUBSET {[id |-> 1, len |-> Len(steps), period |-> 1001 - v] : v \in SpeedValues}
    /\ effectPending \in BOOLEAN
    /\ PlayingShape
    /\ lastOp = "none"
    /\ endPlay = FALSE
    /\ advances = 0

AutoNext == autoplayEffect \/ tick

\* the effect runs once it is due, and a live interval keeps firing
AutoSpec == AutoInit /\ [][AutoNext]_vars /\ WF_vars(autoplayEffect) /\ WF_vars(tick)

----------------------------------------------------------------------------
(* Properties of the trace generator (checked under Spec) *)

Done == gen.pc = "done"

LastStep == gen.steps[Len(gen.steps)]

Range(f) == {f[k] : k \in DOMAIN f}

Count(f, v) == Cardinality({k \in DOMAIN f : f[k] = v})

TypeCount(s, t) == Cardinality({k \in DOMAIN s : s[k].type = t})

SortedSeq(a) == \A p, q \in DOMAIN a : p < q => a[p] <= a[q]

SamePermutation(a, b) ==
    /\ Len(a) = Len(b)
    /\ \A v \in Range(a) \cup Range(b) : Count(a, v) = Count(b, v)

\* the ghost is what it is said to be: a permutation of the input's indices
\* that names where each element of arr came from
ProvOk ==
    /\ Len(gen.prov) = Len(gen.arr)
    /\ \A k \in DOMAIN gen.arr : gen.arr[k] = At(gen.initialArray, gen.prov[k])

\* C1: in the array of the final 'complete' step, elements of equal value
\* stand in the order they had in the input (a later one right of an earlier one).
C1_Stability ==
    Done =>
       /\ LastStep.type = "complete"
       /\ LastStep.array = gen.arr
       /\ ProvOk
       /\ \A p, q \in DOMAIN gen.arr :
             (p < q /\ gen.arr[p] = gen.arr[q]) => gen.prov[p] < gen.prov[q]

\* C2: the array of the last step generateSteps returns is in non-decreasing order.
C2_Sorted == Done => SortedSeq(LastStep.array)

C2_Witness ==
    /\ Done
    /\ Len(gen.initialArray) = MaxLen
    /\ ~SortedSeq(gen.initialArray)
    /\ \E p, q \in DOMAIN gen.initialArray : p < q /\ gen.initialArray[p] = gen.initialArray[q]

\* C3: the array of the final step holds the same multiset of values as the input.
C3_Multiset == Done => SamePermutation(LastStep.array, gen.initialArray)

C3_Witness ==
    /\ Done
    /\ Len(gen.initialArray) >= 3
    /\ TypeCount(gen.steps, "shift") >= 2
    /\ LastStep.array # gen.initialArray

\* C4: generateSteps returns for every input (it never stops short of its return, and
\* the steps it pushes are bounded by the input's length); the returned sequence is
\* non-empty, holds exactly one 'init' step, the first, and exactly one 'complete'
\* step, the last.
C4_Shape ==
    /\ Done \/ ENABLED Next
    /\ Len(gen.steps) <= 2 + Len(gen.initialArray) * (Len(gen.initialArray) + 3)
    /\ Done =>
         /\ Len(gen.steps) >= 1
         /\ gen.steps[1].type = "init"
         /\ LastStep.type = "complete"
         /\ TypeCount(gen.steps, "init") = 1
         /\ TypeCount(gen.steps, "complete") = 1

C4_Witness == Done /\ Len(gen.initialArray) = MaxLen /\ Len(gen.steps) > 2

\* the outer index i of the iteration that emitted step k (an iteration ends with
\* its 'insert' step)
IterOf(s, k) == 1 + Cardinality({m \in 1..(k - 1) : s[m].type = "insert"})

\* step k is the first step an outer iteration emitted
IterFirst(s, k) ==
    /\ k > 1
    /\ s[k - 1].type \in {"init", "insert"}
    /\ s[k].type # "complete"

\* the steps of the iteration in progress carry the loop variable i
InIteration == gen.pc \in {"while", "shift"}

\* C8 as stated: the first step of every outer iteration i is a 'search' step with
\* targetIdx = i, searchRange = (0, i-1) and no mid index.
C8_SearchStartRange ==
    \A k \in DOMAIN gen.steps :
       IterFirst(gen.steps, k) =>
          /\ gen.steps[k].type = "search"
          /\ Has(gen.steps[k], "targetIdx")
          /\ gen.steps[k].targetIdx = IterOf(gen.steps, k)
          /\ Has(gen.steps[k], "searchRange")
          /\ gen.steps[k].searchRange = <<0, IterOf(gen.steps, k) - 1>>
          /\ Len(gen.steps[k].indices) < 3

\* C8 amended: the first step of every outer iteration i = 1..n-1 is a 'search' step
\* with targetIdx = i, empty indices and no searchRange field; the range (0, i-1) is
\* named in its narration only, and is the searchRange of the probe step after it.
C8_SearchStart ==
    /\ \A k \in DOMAIN gen.steps :
          IterFirst(gen.steps, k) =>
             LET i == IterOf(gen.steps, k)
                 st == gen.steps[k]
             IN /\ st.type = "search"
                /\ Has(st, "targetIdx")
                /\ st.targetIdx = i
                /\ st.indices = <<>>
                /\ ~Has(st, "searchRange")
                /\ st.description[1] = "searchStart"
                /\ <<st.description[4], st.description[5]>> = <<0, i - 1>>
                /\ InIteration /\ k = Len(gen.steps) => gen.i = i
                /\ k < Len(gen.steps) =>
                      /\ Has(gen.steps[k + 1], "searchRange")
                      /\ gen.steps[k + 1].searchRange = <<0, i - 1>>
    /\ Done =>
          {IterOf(gen.steps, k) : k \in {m \in DOMAIN gen.steps : IterFirst(gen.steps, m)}}
             = 1..(Len(gen.initialArray) - 1)

C8_Witness ==
    /\ Done
    /\ Len(gen.initialArray) = MaxLen
    /\ \E k \in DOMAIN gen.steps :
          IterFirst(gen.steps, k) /\ gen.steps[k].targetIdx = MaxLen - 1

\* C9 as stated: every 'search', 'shift' and 'insert' step carries targetIdx = i, the
\* outer index of its iteration; 'init' and 'complete' carry none.
C9_TargetIdxAll ==
    \A k \in DOMAIN gen.steps :
       LET st == gen.steps[k]
       IN IF st.type \in {"search", "shift", "insert"}
          THEN Has(st, "targetIdx") /\ st.targetIdx = IterOf(gen.steps, k)
          ELSE ~Has(st, "targetIdx")

\* C9 amended: every 'search' and 'shift' step carries targetIdx = i, the outer index
\* of its iteration; the 'init', 'insert' and 'complete' steps carry no targetIdx.
C9_TargetIdx ==
    /\ \A k \in DOMAIN gen.steps :
          LET st == gen.steps[k]
          IN IF st.type \in {"search", "shift"}
             THEN Has(st, "targetIdx") /\ st.targetIdx = IterOf(gen.steps, k)
             ELSE st.type \in {"init", "insert", "complete"} /\ ~Has(st, "targetIdx")
    /\ InIteration => LastStep.targetIdx = gen.i

C9_Witness ==
    /\ Done
    /\ \E k \in DOMAIN gen.steps : gen.steps[k].type = "shift" /\ gen.steps[k].targetIdx >= 2
    /\ TypeCount(gen.steps, "insert") = MaxLen - 1

\* a probe step: 'search' with searchRange
IsProbe(st) == st.type = "search" /\ Has(st, "searchRange")

C10_RangeInv ==
    \A k \in DOMAIN gen.steps :
       LET st == gen.steps[k]
       IN IsProbe(st) =>
             /\ 0 <= st.searchRange[1]
             /\ st.searchRange[1] <= st.searchRange[2] + 1
             /\ st.searchRange[2] + 1 <= st.targetIdx

\* the step taken from a state whose loop variables have low > high
C10_ResolveStep ==
    (gen.pc = "while" /\ gen.low > gen.high) =>
       /\ Len(gen'.steps) = Len(gen.steps) + 1
       /\ LET st == gen'.steps[Len(gen'.steps)]
          IN /\ st.type = "search"
             /\ st.indices = <<gen.low>>
             /\ ~Has(st, "searchRange")

\* C10: every 'search' step with searchRange = (low, high) has
\* 0 <= low <= high + 1 <= targetIdx; and once the loop variables have low > high the
\* next step emitted is a 'search' step with indices = [low] and no searchRange.
C10_SearchRange == []C10_RangeInv /\ [][C10_ResolveStep]_vars

C10_Witness ==
    /\ gen.pc = "shift"
    /\ Len(gen.steps) >= 4
    /\ LastStep.indices = <<1>>
    /\ IsProbe(gen.steps[Len(gen.steps) - 1])
    /\ IsProbe(gen.steps[Len(gen.steps) - 2])
    /\ gen.steps[Len(gen.steps) - 2].searchRange = <<0, 2>>

\* a resolved step: 'search' with the single index pos
IsResolved(st) == st.type = "search" /\ Len(st.indices) = 1

\* the steps that follow the resolved step at k: the shift steps for j = i, i-1, ...,
\* pos+1 in that order, then the 'insert' step
ShiftsAfter(s, k) ==
    LET i == s[k].targetIdx
        pos == s[k].indices[1]
    IN /\ pos <= i
       /\ \A m \in 1..(i - pos) :
             k + m <= Len(s) =>
                /\ s[k + m].type = "shift"
                /\ s[k + m].indices = <<i - m + 1, i - m>>
       /\ k + (i - pos) + 1 <= Len(s) => s[k + (i - pos) + 1].type = "insert"

\* C11: the iteration with outer index i and resolved position pos emits exactly
\* i - pos 'shift' steps, with indices [j, j-1] for j = i, i-1, ..., pos+1 in that
\* order, right after its resolved step and right before its 'insert' step; a trace
\* for length n holds at most n(n-1)/2 'shift' steps.
C11_ShiftOrder ==
    /\ \A k \in DOMAIN gen.steps :
          /\ IsResolved(gen.steps[k]) => ShiftsAfter(gen.steps, k)
          /\ gen.steps[k].type = "shift" =>
                (IsResolved(gen.steps[k - 1]) \/ gen.steps[k - 1].type = "shift")
    /\ 2 * TypeCount(gen.steps, "shift")
          <= Len(gen.initialArray) * (Len(gen.initialArray) - 1)
    /\ Done => TypeCount(gen.steps, "insert")
                  = Cardinality({k \in DOMAIN gen.steps : IsResolved(gen.steps[k])})

\* a finished trace that reaches the bound: every iteration shifts its whole prefix
C11_Witness ==
    /\ Done
    /\ Len(gen.initialArray) = MaxLen
    /\ 2 * TypeCount(gen.steps, "shift") = MaxLen * (MaxLen - 1)

\* the width high - low of a probe step's searchRange
Width(st) == st.searchRange[2] - st.searchRange[1]

\* C12: every probe step has indices [low, mid, high] with (low, high) its
\* searchRange, mid = floor((low+high)/2) and low <= mid <= high; of two consecutive
\* probe steps (they belong to the same outer iteration) the later has a strictly
\* smaller width high - low.
C12_Narrowing ==
    \A k \in DOMAIN gen.steps :
       LET st == gen.steps[k]
       IN IsProbe(st) =>
             /\ Len(st.indices) = 3
             /\ <<st.indices[1], st.indices[3]>> = st.searchRange
             /\ 2 * st.indices[2] <= st.indices[1] + st.indices[3]
             /\ st.indices[1] + st.indices[3] < 2 * st.indices[2] + 2
             /\ st.indices[1] <= st.indices[2]
             /\ st.indices[2] <= st.indices[3]
             /\ (k < Len(gen.steps) /\ IsProbe(gen.steps[k + 1])) =>
                   /\ gen.steps[k + 1].targetIdx = st.targetIdx
                   /\ IterOf(gen.steps, k + 1) = IterOf(gen.steps, k)
                   /\ Width(gen.steps[k + 1]) < Width(st)

\* two probes in a row, the second on the right half, then the resolved step
C12_Witness ==
    \E k \in DOMAIN gen.steps :
       /\ k + 2 <= Len(gen.steps)
       /\ IsProbe(gen.steps[k])
       /\ IsProbe(gen.steps[k + 1])
       /\ gen.steps[k].searchRange = <<0, 2>>
       /\ gen.steps[k + 1].searchRange = <<2, 2>>
       /\ IsResolved(gen.steps[k + 2])

\* C13: for an input of length 0 or 1 generateSteps returns exactly two steps, 'init'
\* then 'complete', both with the input as their array; no 'search', 'shift' or
\* 'insert' step is emitted at any point of the run.
C13_Degenerate ==
    Len(gen.initialArray) <= 1 =>
       /\ \A k \in DOMAIN gen.steps :
             /\ gen.steps[k].type \in {"init", "complete"}
             /\ gen.steps[k].array = gen.initialArray
       /\ Done =>
             /\ Len(gen.steps) = 2
             /\ gen.steps[1].type = "init"
             /\ gen.steps[2].type = "complete"
             /\ generateSteps(gen.initialArray) = gen.steps

\* the run on a one-element array has returned
C13_Witness == Done /\ Len(gen.initialArray) = 1 /\ Len(gen.steps) = 2

\* C14 as stated: on an input with a NaN or Infinity element generateSteps returns
\* no trace (it pushes no step and never reaches its return with one).
C14_Rejected == Malformed(gen.initialArray) => gen.steps = <<>>

\* the element compared by the probe step st, and the value being inserted
ProbedNaN(st) == IsNaN(At(st.array, st.indices[2])) \/ IsNaN(At(st.array, st.targetIdx))

\* C14 amended: generateSteps does not validate its input.  On an input with a NaN or
\* Infinity element it runs to its return like on any other input and returns a whole
\* trace: 'init' with the input as its array first, 'complete' with a rearrangement
\* of the input last.  A comparison with NaN is false, so a probe against NaN keeps
\* low (the next step's first index is that probe's low).
C14_NoValidation ==
    Malformed(gen.initialArray) =>
       /\ Done \/ ENABLED Next
       /\ gen.pc # "call" =>
             /\ gen.steps[1].type = "init"
             /\ gen.steps[1].array = gen.initialArray
       /\ \A k \in DOMAIN gen.steps :
             (IsProbe(gen.steps[k]) /\ ProbedNaN(gen.steps[k]) /\ k < Len(gen.steps)) =>
                gen.steps[k + 1].indices[1] = gen.steps[k].indices[1]
       /\ Done =>
             /\ LastStep.type = "complete"
             /\ SamePermutation(LastStep.array, gen.initialArray)
             /\ Len(gen.steps) >= 2

\* a returned trace for an input with NaN after a finite element: the finite element
\* was probed against NaN
C14_Witness ==
    /\ Done
    /\ Len(gen.initialArray) >= 3
    /\ \E k \in DOMAIN gen.initialArray : IsNaN(gen.initialArray[k])
    /\ \E k \in DOMAIN gen.initialArray : gen.initialArray[k] = Infinity
    /\ \E k \in DOMAIN gen.steps :
          /\ IsProbe(gen.steps[k])
          /\ IsNaN(At(gen.steps[k].array, gen.steps[k].indices[2]))
          /\ ~IsNaN(At(gen.steps[k].array, gen.steps[k].targetIdx))

\* no two steps, no step and the working array, and none of them and the caller's
\* array are the same object
NoSharing ==
    /\ Len(gen.refs) = Len(gen.steps)
    /\ \A k \in DOMAIN gen.refs : gen.refs[k] \notin {gen.arrRef, gen.inputRef}
    /\ \A k, m \in DOMAIN gen.refs : k # m => gen.refs[k] # gen.refs[m]
    /\ gen.arrRef # gen.inputRef

\* a step of generateSteps leaves the caller's array and every step already emitted
\* as they were
KeepsEmitted ==
    /\ gen'.initialArray = gen.initialArray
    /\ \A k \in DOMAIN gen.steps : k \in DOMAIN gen'.steps /\ gen'.steps[k] = gen.steps[k]

\* C18: generateSteps never modifies its input array, and no assignment of the shift
\* loop or of the insertion changes the array of a step already emitted: each step
\* holds an array of its own, shared with no other step, with the working array or
\* with the input.
C18_Isolation ==
    /\ []NoSharing
    /\ [][KeepsEmitted]_vars
    /\ [](Done => gen.steps[1].array = gen.initialArray)

\* a finished run that shifted and inserted, ending on another arrangement than the
\* input's
C18_Witness ==
    /\ Done
    /\ TypeCount(gen.steps, "shift") >= 3
    /\ LastStep.array # gen.initialArray
    /\ gen.arr # gen.initialArray

\* arrays a and b are equal everywhere but at index d
DiffersOnlyAt(a, b, d) ==
    /\ Len(a) = Len(b)
    /\ \A k \in DOMAIN a : k # d + 1 => a[k] = b[k]

\* the resolved step of the iteration that emitted step k
ResolvedOf(s, k) == CHOOSE m \in 1..k : IsResolved(s[m]) /\ \A q \in (m + 1)..k : ~IsResolved(s[q])

\* the snapshots of the steps emitted so far
C19_Snapshots ==
    \A k \in DOMAIN gen.steps :
       LET st == gen.steps[k]
           prev == gen.steps[k - 1]
       IN /\ (st.type = "shift" /\ IsResolved(prev)) => st.array = prev.array
          /\ (st.type = "shift" /\ prev.type = "shift") =>
                /\ DiffersOnlyAt(st.array, prev.array, prev.indices[1])
                /\ At(st.array, prev.indices[1]) = At(prev.array, prev.indices[2])
          /\ st.type = "insert" =>
                LET res == gen.steps[ResolvedOf(gen.steps, k)]
                    pos == res.indices[1]
                    val == At(res.array, res.targetIdx)
                IN /\ st.indices = <<pos>>
                   /\ At(st.array, pos) = val
                   /\ prev.type = "shift" =>
                         /\ DiffersOnlyAt(Put(st.array, pos, At(prev.array, pos)),
                                          prev.array, prev.indices[1])
                         /\ At(st.array, pos + 1) = At(prev.array, pos)
                   /\ IsResolved(prev) => st.array = prev.array

\* the snapshot a shift takes is the working array before its assignment, the one an
\* insertion takes is the working array after it
C19_SnapshotStep ==
    /\ CanShift(gen) =>
          /\ gen'.steps[Len(gen'.steps)].array = gen.arr
          /\ gen'.arr = Put(gen.arr, gen.j, At(gen.arr, gen.j - 1))
    /\ CanInsert(gen) =>
          /\ gen'.steps[Len(gen'.steps)].array = gen'.arr
          /\ At(gen'.arr, gen.pos) = gen.val

\* C19: the array of a 'shift' step with indices [j, j-1] is the working array before
\* arr[j] = arr[j-1] (the first shift step of an iteration has the array of the
\* resolved step before it, each later one differs from the previous shift step's only
\* at the previous destination index, which holds the value moved there); the array of
\* the 'insert' step is the working array after arr[pos] = val and holds val at pos.
C19_SnapshotTiming == []C19_Snapshots /\ [][C19_SnapshotStep]_vars

\* two shift steps in a row and the insert step after them, with different values moved
C19_Witness ==
    \E k \in DOMAIN gen.steps :
       /\ k + 2 <= Len(gen.steps)
       /\ gen.steps[k].type = "shift"
       /\ gen.steps[k + 1].type = "shift"
       /\ gen.steps[k + 1].array # gen.steps[k].array
       /\ gen.steps[k + 2].type = "insert"
       /\ gen.steps[k + 2].array # gen.steps[k + 1].array

StrictlyIncreasing(a) == \A p, q \in DOMAIN a : p < q => a[p] < a[q]

\* C23: for a strictly increasing input every outer iteration i resolves to pos = i,
\* no 'shift' step is emitted, and the array of every step is the input.
C23_SortedInput ==
    StrictlyIncreasing(gen.initialArray) =>
       \A k \in DOMAIN gen.steps :
          LET st == gen.steps[k]
          IN /\ st.type # "shift"
             /\ st.array = gen.initialArray
             /\ IsResolved(st) => st.indices = <<st.targetIdx>>
             /\ st.type = "insert" => st.indices = <<IterOf(gen.steps, k)>>

\* the longest strictly increasing input of Spec, sorted to the end
C23_Witness ==
    /\ Done
    /\ StrictlyIncreasing(gen.initialArray)
    /\ Len(gen.initialArray) >= 3
    /\ TypeCount(gen.steps, "insert") = Len(gen.initialArray) - 1

AllEqual(a) == \A p, q \in DOMAIN a : a[p] = a[q]

\* C24: in the resolved step of outer iteration i, with val = arr[i], pos = indices[0]
\* has 0 <= pos <= i, every element of arr[0..pos-1] is less than val and every
\* element of arr[pos..i-1] is greater than or equal to val; for an input of equal
\* values every iteration resolves pos = 0 and performs i shifts.
C24_LowerBound ==
    /\ \A k \in DOMAIN gen.steps :
          LET st == gen.steps[k]
              i == st.targetIdx
              pos == st.indices[1]
              val == At(st.array, i)
          IN IsResolved(st) =>
                /\ 0 <= pos
                /\ pos <= i
                /\ i = IterOf(gen.steps, k)
                /\ \A m \in 0..(pos - 1) : At(st.array, m) < val
                /\ \A m \in pos..(i - 1) : At(st.array, m) >= val
                /\ AllEqual(gen.initialArray) => pos = 0
    /\ (Done /\ AllEqual(gen.initialArray)) =>
          2 * TypeCount(gen.steps, "shift")
             = Len(gen.initialArray) * (Len(gen.initialArray) - 1)

\* a resolved step strictly inside the prefix, with an equal element right of pos
C24_Witness ==
    \E k \in DOMAIN gen.steps :
       LET st == gen.steps[k]
       IN /\ IsResolved(st)
          /\ st.targetIdx = 3
          /\ st.indices = <<1>>
          /\ At(st.array, 1) = At(st.array, 3)
          /\ At(st.array, 2) > At(st.array, 3)

\* the part a step plays in its block
Kind(st) ==
    CASE st.type = "search" /\ Len(st.indices) = 0 -> "start"
      [] st.type = "search" /\ Len(st.indices) = 3 -> "probe"
      [] st.type = "search" /\ Len(st.indices) = 1 -> "resolved"
      [] OTHER -> st.type

\* the kinds that may stand right after a step of kind a
After(a) ==
    CASE a = "init" -> {"start", "complete"}
      [] a = "start" -> {"probe"}
      [] a = "probe" -> {"probe", "resolved"}
      [] a = "resolved" -> {"shift", "insert"}
      [] a = "shift" -> {"shift", "insert"}
      [] a = "insert" -> {"start", "complete"}
      [] OTHER -> {}

\* the steps of outer iteration i
Block(s, i) == {k \in DOMAIN s : s[k].type \notin {"init", "complete"} /\ IterOf(s, k) = i}

KindCount(s, i, kd) == Cardinality({k \in Block(s, i) : Kind(s[k]) = kd})

\* C26: between 'init' and 'complete' the trace is n-1 blocks, one per outer index
\* i = 1, ..., n-1 in increasing order, each made of one search-start step, one or
\* more probe steps, one resolved step with indices [pos], i - pos shift steps and one
\* 'insert' step with indices [pos], in this order; blocks do not interleave.
C26_Blocks ==
    /\ gen.pc # "call" => Kind(gen.steps[1]) = "init"
    /\ \A k \in DOMAIN gen.steps :
          /\ k < Len(gen.steps) => Kind(gen.steps[k + 1]) \in After(Kind(gen.steps[k]))
          /\ Kind(gen.steps[k]) \in {"start", "probe", "resolved", "shift"} =>
                gen.steps[k].targetIdx = IterOf(gen.steps, k)
          /\ IsResolved(gen.steps[k]) => ShiftsAfter(gen.steps, k)
          /\ Kind(gen.steps[k]) = "insert" =>
                gen.steps[k].indices = gen.steps[ResolvedOf(gen.steps, k)].indices
    /\ Done =>
          /\ Kind(LastStep) = "complete"
          /\ \A k \in DOMAIN gen.steps :
                gen.steps[k].type \notin {"init", "complete"} =>
                   IterOf(gen.steps, k) \in 1..(Len(gen.initialArray) - 1)
          /\ \A i \in 1..(Len(gen.initialArray) - 1) :
                /\ KindCount(gen.steps, i, "start") = 1
                /\ KindCount(gen.steps, i, "probe") >= 1
                /\ KindCount(gen.steps, i, "resolved") = 1
                /\ KindCount(gen.steps, i, "insert") = 1
                /\ \A k \in Block(gen.steps, i) :
                      Kind(gen.steps[k]) = "resolved" =>
                         KindCount(gen.steps, i, "shift") = i - gen.steps[k].indices[1]

\* a finished trace of MaxLen - 1 blocks, one with two probes and one with two shifts
C26_Witness ==
    /\ Done
    /\ Len(gen.initialArray) = MaxLen
    /\ \E i \in 1..(MaxLen - 1) : KindCount(gen.steps, i, "probe") >= 2
    /\ \E i \in 1..(MaxLen - 1) : KindCount(gen.steps, i, "shift") >= 2
    /\ \E i \in 1..(MaxLen - 1) : KindCount(gen.steps, i, "shift") = 0

\* the elements of a at the indices lo..hi are in non-decreasing order
SortedPart(a, lo, hi) == \A p, q \in lo..hi : p < q => At(a, p) <= At(a, q)

\* C27: the array of the 'insert' step that ends outer iteration i has its prefix
\* [0..i] in non-decreasing order, is a permutation of the input and has the input's
\* suffix [i+1..n-1]; the array of every 'search' step of iteration i has its prefix
\* [0..i-1] in non-decreasing order.
C27_OuterInvariant ==
    \A k \in DOMAIN gen.steps :
       LET st == gen.steps[k]
           i == IterOf(gen.steps, k)
       IN /\ st.type = "insert" =>
                /\ SortedPart(st.array, 0, i)
                /\ SamePermutation(st.array, gen.initialArray)
                /\ \A m \in (i + 1)..(Len(gen.initialArray) - 1) :
                      At(st.array, m) = At(gen.initialArray, m)
          /\ st.type = "search" =>
                /\ st.targetIdx = i
                /\ SortedPart(st.array, 0, i - 1)

\* an insertion into the middle of the prefix with part of the input still untouched
C27_Witness ==
    \E k \in DOMAIN gen.steps :
       LET st == gen.steps[k]
       IN /\ st.type = "insert"
          /\ IterOf(gen.steps, k) = 2
          /\ st.indices = <<1>>
          /\ Len(st.array) = MaxLen
          /\ st.array # gen.initialArray
          /\ ~SortedSeq(st.array)

----------------------------------------------------------------------------
(* Properties of the playback controller (checked under PlaySpec) *)

LastIndex == Len(steps) - 1

\* C5: once an interval tick has left the cursor on the last index and the autoplay
\* effect has run for that render, isPlaying is false.
C5_AutoPause ==
    (steps # <<>> /\ lastOp = "tick" /\ currentStep = LastIndex /\ ~effectPending)
       => ~isPlaying

\* C6, first part: on a non-empty trace the cursor is within 0..steps.length-1.
C6_CursorInRange == steps # <<>> => (0 <= currentStep /\ currentStep <= LastIndex)

\* stepForward called k times from cursor c
RECURSIVE ForwardTimes(_, _, _)
ForwardTimes(c, len, k) == IF k = 0 THEN c ELSE ForwardTimes(ForwardTo(c, len), len, k - 1)

\* steps.length calls of stepForward from 0 end on the last index, as do more
C6_ForwardLaw ==
    steps # <<>> =>
       /\ ForwardTimes(0, Len(steps), Len(steps)) = LastIndex
       /\ ForwardTimes(0, Len(steps), Len(steps) + 2) = LastIndex

\* a stepForward step moves the cursor by one below the last index and not at all on it
C6_ForwardStep ==
    (stepForward /\ steps # <<>>) =>
       currentStep' = IF currentStep < LastIndex THEN currentStep + 1 ELSE currentStep

\* C6: on a non-empty trace, whatever handlers and ticks have run, the cursor is
\* within 0..steps.length-1; steps.length calls of stepForward from 0 end exactly on
\* the last index and every further call leaves the cursor there.
C6_PlaybackBounds == []C6_CursorInRange /\ []C6_ForwardLaw /\ [][C6_ForwardStep]_vars

\* on the last index with an interval still live and the effect yet to run
C6_Witness ==
    /\ steps # <<>>
    /\ currentStep = LastIndex
    /\ timers # {}
    /\ effectPending

\* C7: the callback of an interval scheduled before a pause or a reset, firing after
\* it (isPlaying is false), changes neither the cursor nor isPlaying.
C7_StaleTickNoOp ==
    [][(tick /\ ~isPlaying) => (currentStep' = currentStep /\ isPlaying' = isPlaying)]_vars

\* C15: in the state reset leaves (and until the next handler or tick), whatever the
\* state it was called in, currentStep = 0, isPlaying = false and steps is
\* generateSteps of the array just sampled, so the exposed step is that trace's 'init'
\* step with the sampled array.
C15_ResetState ==
    lastOp = "reset" =>
       /\ currentStep = 0
       /\ ~isPlaying
       /\ Len(array) = SampleSize
       /\ steps = generateSteps(array)
       /\ step = steps[1]
       /\ step.type = "init"
       /\ step.array = array

\* reset was called while an interval was live: the state before it was playing
C15_Witness ==
    /\ lastOp = "reset"
    /\ timers # {}
    /\ effectPending
    /\ \E t \in timers : t.period # 1001 - INITIAL_SPEED

\* C16 as stated: once togglePlay has set isPlaying to true with the cursor on the
\* last index, no interval tick changes the cursor until a reset, whatever other
\* commands are issued in between.
C16_InertUntilReset == [][(endPlay /\ tick) => currentStep' = currentStep]_vars

\* once the effect has run with the cursor on the last index, no interval is live
C16_NoTimerAtEnd ==
    (endPlay /\ currentStep = LastIndex /\ ~effectPending) => timers = {}

\* a tick with the cursor on the last index leaves the cursor there
C16_TickAtEnd == (endPlay /\ tick /\ currentStep = LastIndex) => currentStep' = currentStep

\* C16 amended: once togglePlay has set isPlaying to true with the cursor on the last
\* index, no interval tick changes the cursor for as long as the cursor is on the last
\* index (no interval is live there once the effect has run, and a tick that still
\* fires leaves the cursor alone).  After a stepBackward with isPlaying still true the
\* effect schedules an interval again and ticks advance the cursor.
C16_InertAtEnd == []C16_NoTimerAtEnd /\ [][C16_TickAtEnd]_vars

\* after play at the end, a step back and a tick forward, the interval fired once
\* more with the cursor on the last index
C16_Witness ==
    /\ endPlay
    /\ lastOp = "tick"
    /\ currentStep = LastIndex
    /\ effectPending
    /\ advances = 0
    /\ ~isPlaying

\* the step is the call of a manual stepping handler, or a run of the effect after it
ManualStep == lastOp' \in {"stepForward", "stepBackward"}

C17_FrameStep ==
    /\ ManualStep =>
          /\ isPlaying' = isPlaying
          /\ speed' = speed
          /\ steps' = steps
          /\ array' = array
          /\ currentStep' \in {currentStep - 1, currentStep, currentStep + 1}
    /\ (lastOp' = "stepForward" /\ steps # <<>> /\ currentStep = LastIndex) =>
          currentStep' = currentStep
    /\ (lastOp' = "stepBackward" /\ currentStep = 0) => currentStep' = currentStep

\* C17: stepForward and stepBackward change the cursor only: whatever the state they
\* are called in, isPlaying, speed and the steps sequence are the same after as
\* before; stepForward on the last index leaves the cursor too, and stepBackward never
\* pauses playback.
C17_ManualFrame == [][C17_FrameStep]_vars

\* stepBackward was called during playback, and playback is still on
C17_Witness ==
    /\ lastOp = "stepBackward"
    /\ isPlaying
    /\ effectPending
    /\ timers # {}
    /\ currentStep > 0
    /\ currentStep < LastIndex

\* an interval callback moves the cursor by one or not at all
C20_TickStep == lastOp' = "tick" => currentStep' \in {currentStep, currentStep + 1}

\* between two runs of the autoplay effect the callbacks move the cursor at most once
C20_OneAdvance == advances <= 1

\* C20: every interval tick changes the cursor by exactly +1 or not at all, and
\* between two consecutive runs of the effect (each clears the interval and schedules
\* anew) at most one advancement is applied, however ticks interleave with
\* stepForward, stepBackward, togglePlay, setSpeed and reset.
C20_SingleStep == []C20_OneAdvance /\ [][C20_TickStep]_vars

\* a tick has moved the cursor during playback resumed below the last index, and the
\* interval that fired is still live with the effect yet to run
C20_Witness ==
    /\ lastOp = "tick"
    /\ advances = 1
    /\ effectPending
    /\ timers # {}
    /\ endPlay
    /\ isPlaying
    /\ speed # INITIAL_SPEED

\* C21 as stated: in every reachable state at most one interval is live, and none
\* while isPlaying is false or the cursor is on the last index.
C21_NoTimerWhenIdle ==
    /\ Cardinality(timers) <= 1
    /\ (~isPlaying \/ currentStep >= LastIndex) => timers = {}

\* C21 amended: in every reachable state at most one interval is live, the one
\* timerRef names; and once the autoplay effect has run for the state, none is live
\* while isPlaying is false or the cursor is on the last index.  (Between a pause, a
\* reset or the arrival on the last index and the run of the effect the interval of
\* the previous run is still live.)  A reset followed by togglePlay leaves one interval.
C21_OneTimer ==
    /\ Cardinality(timers) <= 1
    /\ \A t \in timers : t.id = timerRef
    /\ (~effectPending /\ (~isPlaying \/ currentStep >= LastIndex)) => timers = {}
    /\ (~effectPending /\ isPlaying /\ currentStep < LastIndex) =>
          \E t \in timers : t.len = Len(steps) /\ t.period = 1001 - speed

\* play pressed on the first step of a trace (as after a reset), at another speed
\* than the initial one, and the effect has run: one interval, for this trace
C21_Witness ==
    /\ lastOp = "togglePlay"
    /\ isPlaying
    /\ currentStep = 0
    /\ ~effectPending
    /\ Cardinality(timers) = 1
    /\ speed = SPEED_MAX
    /\ \A t \in timers : t.len = Len(steps) /\ t.period = 1001 - SPEED_MAX

\* C22: while steps is empty the exposed step is the placeholder (type 'init', empty
\* array, empty indices) and the cursor stays 0, whatever handlers are called.
C22_EmptyTrace ==
    steps = <<>> =>
       /\ step.type = "init"
       /\ step.array = <<>>
       /\ step.indices = <<>>
       /\ currentStep = 0

\* every reachable state of the controller with playback on below the last index has
\* the interval bookkeeping AutoInit starts from
AutoStartsCovered ==
    (steps # <<>> /\ isPlaying /\ currentStep >= 0 /\ currentStep < LastIndex) => PlayingShape

\* the cursor moves by single steps upwards, and not at all once on the last index
C25_Upwards ==
    /\ currentStep' \in {currentStep, currentStep + 1}
    /\ currentStep = LastIndex => currentStep' = currentStep

\* C25: from a state with isPlaying = true and the cursor below the last index of a
\* non-empty trace, with the interval firing and the effect running when due and no
\* user command, the cursor reaches the last index, moving there one index at a time
\* in increasing order, and stays on it: no later tick changes it and no interval is
\* left.
C25_Progress ==
    /\ <>[](currentStep = LastIndex /\ timers = {} /\ ~effectPending)
    /\ [][C25_Upwards]_vars

\* a tick has brought the cursor to the last index and the effect has cleared the
\* interval
C25_Witness ==
    /\ currentStep = LastIndex
    /\ lastOp = "tick"
    /\ advances = 0
    /\ ~effectPending
    /\ timers = {}

====
